---- MODULE Spec2Model ----
(***************************************************************************)
(* ProjPool backend, app.py: the application factory create_app, the JWT   *)
(* callbacks it registers, the revoked-token store they consult and the    *)
(* scheduled clean-up job.                                                  *)
(*                                                                         *)
(* Time is counted in minutes since 00:00 of day 0.  The clock moves an    *)
(* hour at a time; the firings of the scheduler inside the hour that has   *)
(* passed are computed minute by minute.                                   *)
(***************************************************************************)
EXTENDS Integers, Sequences, FiniteSets, TLC

VARIABLES
    apps,        \* the application instances create_app has returned
    blocklist,   \* the rows of the TokenBlocklist table
    tokens,      \* the access tokens issued so far
    now,         \* the clock, in minutes
    req,         \* the request between its decoding and its blocklist check
    sweeps,      \* the runs of the clean-up job in progress
    revoked,     \* history: the jti of every token ever revoked
    obs          \* history: what the last operation did

vars == <<apps, blocklist, tokens, now, req, sweeps, revoked, obs>>

\* ------------------------------------------------------------------ bounds

MaxHours == 4       \* the clock of Spec stops after this many hours
MaxTokens == 1      \* tokens issued in Spec
MaxDays == 1        \* the clock of SpecAssembly stops after this many days
MaxApps == 2        \* calls of create_app in SpecAssembly

\* --------------------------------------------------------- python values

None == [none |-> TRUE]

\* A python value that is a str or an int, with its printed form.
PyStr(s) == [type |-> "str", repr |-> s]
PyInt(s) == [type |-> "int", repr |-> s]

\* str(x): the printed form, as a str.
str(x) == [type |-> "str", repr |-> x.repr]

\* x == y on python values: an int never equals a str.
PyEq(x, y) == x.type = y.type /\ x.repr = y.repr

\* bool(x) of a query result: a row is truthy, None is not.
bool(x) == x # None

\* What a callback returns to the library: its return value, the table as it
\* leaves it, and the number of queries it ran.
Returned(ret, db, queries) == [ret |-> ret, db |-> db, queries |-> queries]

\* jsonify(body), status
Response(body, status) == [body |-> body, status |-> status]

\* ------------------------------------------------------- the environment

\* The JWT_ACCESS_TOKEN_EXPIRES of create_app, in hours.
JWT_ACCESS_TOKEN_EXPIRES == 3

EnvFull ==
    [DATABASE_URL |-> "postgres", GCS_BUCKET_NAME |-> "bucket",
     GOOGLE_CLOUD_PROJECT_ID |-> "project", GOOGLE_CLOUD_GEMINI_MODEL_ID |-> "gemini",
     JWT_SECRET_KEY |-> "secret"]

EnvBare ==
    [DATABASE_URL |-> "sqlite", GCS_BUCKET_NAME |-> "None",
     GOOGLE_CLOUD_PROJECT_ID |-> "None", GOOGLE_CLOUD_GEMINI_MODEL_ID |-> "None",
     JWT_SECRET_KEY |-> "secret"]

Envs == {EnvFull, EnvBare}

DbUrls == {"None", "sqlite:///data.db"}

\* -------------------------------------------------------- the callbacks

\* add_claims_to_jwt comparing numbers: identity == 1 after int(identity).
add_claims_by_number(identity, db) ==
    IF identity.repr = "1"
    THEN Returned([is_admin |-> TRUE], db, 0)
    ELSE Returned([is_admin |-> FALSE], db, 0)

\* @jwt.additional_claims_loader
add_claims_to_jwt(identity, db) ==
    IF PyEq(identity, str(PyInt("1")))
    THEN Returned([is_admin |-> TRUE], db, 0)
    ELSE Returned([is_admin |-> FALSE], db, 0)

\* TokenBlocklist.query.filter_by(jti=jti)
filter_by(db, jti) == {row \in db : row.jti = jti}

\* Query.first(): a row of the result, or None.
first(rows) == IF rows = {} THEN None ELSE CHOOSE row \in rows : TRUE

\* check_if_token_in_blocklist testing the row the wrong way round (is None).
check_inverted(jwt_header, jwt_payload, db) ==
    Returned(first(filter_by(db, jwt_payload.jti)) = None, db, 1)

\* check_if_token_in_blocklist without its return: None, which is falsy.
check_returns_none(jwt_header, jwt_payload, db) ==
    Returned(FALSE, db, 1)

\* check_if_token_in_blocklist deleting the row it finds.
check_consumes(jwt_header, jwt_payload, db) ==
    Returned(bool(first(filter_by(db, jwt_payload.jti))),
             db \ filter_by(db, jwt_payload.jti), 2)

\* @jwt.token_in_blocklist_loader
check_if_token_in_blocklist(jwt_header, jwt_payload, db) ==
    LET jti == jwt_payload.jti
    IN  Returned(bool(first(filter_by(db, jti))), db, 1)

\* revoked_token_callback without its status: Flask answers 200.
revoked_token_callback_no_status(jwt_header, jwt_payload, db) ==
    Returned(Response([decsription |-> "Token has been revoked",
                       error |-> "token_revoked"], 200), db, 0)

\* @jwt.revoked_token_loader
revoked_token_callback(jwt_header, jwt_payload, db) ==
    Returned(Response([decsription |-> "Token has been revoked",
                       error |-> "token_revoked"], 401), db, 0)

\* @jwt.expired_token_loader
expired_token_callback(jwt_header, jwt_payload, db) ==
    Returned(Response([message |-> "Token has expired",
                       error |-> "token_expired"], 401), db, 0)

\* @jwt.invalid_token_loader
invalid_token_callback(error, db) ==
    Returned(Response([message |-> "Signature verification failed",
                       error |-> "invalid_token"], 401), db, 0)

\* @jwt.unauthorized_loader
missing_token_callback(error, db) ==
    Returned(Response([description |-> "Request does not contain access token",
                       error |-> "authorization_required"], 401), db, 0)

\* What JWTManager does at a loader nobody registered a callback for: no
\* claims, no blocklist, and its own error bodies.
default_callback(slot, db) ==
    CASE slot = "additional_claims_loader" -> Returned(<<>>, db, 0)
      [] slot = "token_in_blocklist_loader" -> Returned(FALSE, db, 0)
      [] slot = "revoked_token_loader" ->
             Returned(Response([msg |-> "Token has been revoked"], 401), db, 0)
      [] slot = "expired_token_loader" ->
             Returned(Response([msg |-> "Token has expired"], 401), db, 0)
      [] slot = "invalid_token_loader" ->
             Returned(Response([msg |-> "Signature verification failed"], 422), db, 0)
      [] slot = "unauthorized_loader" ->
             Returned(Response([msg |-> "Missing Authorization Header"], 401), db, 0)

\* ------------------------------------------------------------ create_app

\* The job without its hour: the cron trigger matches minute 0 of every hour.
CleanupJobHourly ==
    [id |-> "cleanup_revoked_tokens", func |-> "cleanup_revoked_tokens",
     trigger |-> "cron", hour |-> 0 .. 23, minute |-> {0}]

\* scheduler.add_job(id, func, trigger = "cron", hour = 3, minute = 0); a cron
\* field is the set of the values it matches.
CleanupJob ==
    [id |-> "cleanup_revoked_tokens", func |-> "cleanup_revoked_tokens",
     trigger |-> "cron", hour |-> {3}, minute |-> {0}]

\* The expired and the invalid handler under each other's decorator.
JwtLoadersSwapped ==
    << <<"additional_claims_loader", "add_claims_to_jwt">>,
       <<"token_in_blocklist_loader", "check_if_token_in_blocklist">>,
       <<"revoked_token_loader", "revoked_token_callback">>,
       <<"invalid_token_loader", "expired_token_callback">>,
       <<"expired_token_loader", "invalid_token_callback">>,
       <<"unauthorized_loader", "missing_token_callback">> >>

\* The last two handlers under the same decorator: the second takes the slot.
JwtLoadersShared ==
    << <<"additional_claims_loader", "add_claims_to_jwt">>,
       <<"token_in_blocklist_loader", "check_if_token_in_blocklist">>,
       <<"revoked_token_loader", "revoked_token_callback">>,
       <<"expired_token_loader", "expired_token_callback">>,
       <<"invalid_token_loader", "invalid_token_callback">>,
       <<"invalid_token_loader", "missing_token_callback">> >>

\* The loaders create_app decorates a callback with, in the order of the file.
JwtLoaders ==
    << <<"additional_claims_loader", "add_claims_to_jwt">>,
       <<"token_in_blocklist_loader", "check_if_token_in_blocklist">>,
       <<"revoked_token_loader", "revoked_token_callback">>,
       <<"expired_token_loader", "expired_token_callback">>,
       <<"invalid_token_loader", "invalid_token_callback">>,
       <<"unauthorized_loader", "missing_token_callback">> >>

\* The blueprints create_app registers, in the order of the file.
Blueprints ==
    <<"ImageBlueprint", "LabelBlueprint", "ProjectBlueprint", "UserBlueprint",
      "GeminiBlueprint">>

\* A decorator of JWTManager: the callback takes the loader's slot.
RECURSIVE RegisterLoaders(_, _)
RegisterLoaders(callbacks, loaders) ==
    IF loaders = <<>> THEN callbacks
    ELSE RegisterLoaders((Head(loaders)[1] :> Head(loaders)[2]) @@ callbacks,
                         Tail(loaders))

\* api.register_blueprint, once for each blueprint
RECURSIVE RegisterBlueprints(_, _)
RegisterBlueprints(registered, blps) ==
    IF blps = <<>> THEN registered
    ELSE RegisterBlueprints(Append(registered, Head(blps)), Tail(blps))

\* The instance create_app(db_url) returns under the environment env.
create_app(db_url, env) ==
    LET config ==
            [PROPAGATE_EXCEPTIONS |-> TRUE,
             API_TITLE |-> "ProjPool -- Project Database",
             API_VERSION |-> "v1",
             OPENAPI_VERSION |-> "3.0.3",
             OPENAPI_URL_PREFIX |-> "/",
             OPENAPI_SWAGGER_UI_PATH |-> "/swagger-ui",
             OPENAPI_SWAGGER_UI_URL |-> "https://cdn.jsdelivr.net/npm/swagger-ui-dist/",
             SQLALCHEMY_DATABASE_URI |-> env.DATABASE_URL,
             SQLALCHEMY_TRACK_MODIFICATIONS |-> FALSE,
             GCS_BUCKET_NAME |-> env.GCS_BUCKET_NAME,
             GOOGLE_CLOUD_PROJECT_ID |-> env.GOOGLE_CLOUD_PROJECT_ID,
             GOOGLE_CLOUD_GEMINI_MODEL_ID |-> env.GOOGLE_CLOUD_GEMINI_MODEL_ID,
             JWT_SECRET_KEY |-> env.JWT_SECRET_KEY,
             JWT_ACCESS_TOKEN_EXPIRES |-> JWT_ACCESS_TOKEN_EXPIRES * 60,
             SCHEDULER_API_ENABLED |-> TRUE]
    IN  [config |-> config,
         scheduler_running |-> TRUE,
         jobs |-> {} \cup {CleanupJob},
         jwt_callbacks |-> RegisterLoaders(<<>>, JwtLoaders),
         blueprints |-> RegisterBlueprints(<<>>, Blueprints)]

\* The callback an instance holds at a loader, run on its arguments.
Invoke(app, slot, arg, db) ==
    IF slot \notin DOMAIN app.jwt_callbacks THEN default_callback(slot, db)
    ELSE LET cb == app.jwt_callbacks[slot]
         IN  CASE cb = "add_claims_to_jwt" -> add_claims_to_jwt(arg, db)
               [] cb = "check_if_token_in_blocklist" ->
                      check_if_token_in_blocklist(arg.header, arg.payload, db)
               [] cb = "revoked_token_callback" ->
                      revoked_token_callback(arg.header, arg.payload, db)
               [] cb = "expired_token_callback" ->
                      expired_token_callback(arg.header, arg.payload, db)
               [] cb = "invalid_token_callback" -> invalid_token_callback(arg, db)
               [] cb = "missing_token_callback" -> missing_token_callback(arg, db)

\* ------------------------------------------------------ tokens, requests

Identities == {PyStr("1"), PyStr("2"), PyInt("1")}

NoCred == [kind |-> "none"]

\* The credential a request carries for token t: as issued, or with its
\* signature broken.
Jwt(t, sig_ok) ==
    [kind |-> "jwt", sig_ok |-> sig_ok, jti |-> t.jti, sub |-> t.sub, exp |-> t.exp]

Creds == {NoCred} \cup {Jwt(t, ok) : t \in tokens, ok \in BOOLEAN}

LoaderArgs(cred) ==
    [header |-> [alg |-> "HS256", typ |-> "JWT"],
     payload |-> [jti |-> cred.jti, sub |-> cred.sub, exp |-> cred.exp]]

\* The response of a resource to a request the gate lets through.
Accepted == Response([ok |-> TRUE], 200)

\* The first half of the verification of a request: the credential is looked
\* for, its signature verified and its expiry compared with the clock t.  ret is
\* the rejection, or None when the token goes on to the blocklist check.
DecodeRequest(app, cred, t, db) ==
    IF cred.kind = "none"
    THEN Invoke(app, "unauthorized_loader", "Missing Authorization Header", db)
    ELSE IF ~cred.sig_ok
    THEN Invoke(app, "invalid_token_loader", "Signature verification failed", db)
    ELSE IF cred.exp <= t
    THEN Invoke(app, "expired_token_loader", LoaderArgs(cred), db)
    ELSE Returned(None, db, 0)

\* The second half: the blocklist loader decides between the revoked-token
\* response and the resource.  hit is what the blocklist loader returned.
CheckBlocklist(app, cred, db) ==
    LET hit == Invoke(app, "token_in_blocklist_loader", LoaderArgs(cred), db)
    IN  IF hit.ret
        THEN LET r == Invoke(app, "revoked_token_loader", LoaderArgs(cred), hit.db)
             IN  [ret |-> r.ret, db |-> r.db, queries |-> r.queries + hit.queries,
                  hit |-> hit.ret]
        ELSE [ret |-> Accepted, db |-> hit.db, queries |-> hit.queries,
              hit |-> hit.ret]

\* ------------------------------------------------------------ the store

\* A row of TokenBlocklist for token t.
Row(t) == [jti |-> t.jti, exp |-> t.exp]

\* The select without its condition: every row.
cleanup_select_all(db, t) == db

\* cleanup_revoked_tokens, its select: the rows whose token has expired at t.
cleanup_select(db, t) == {row \in db : row.exp <= t}

\* cleanup_revoked_tokens, its delete.
cleanup_delete(db, victims) == db \ victims

\* ---------------------------------------------------------- the scheduler

\* Whether a cron job is due at minute m.
CronMatches(job, m) ==
    /\ job.trigger = "cron"
    /\ ((m \div 60) % 24) \in job.hour
    /\ (m % 60) \in job.minute

\* The firings of the instances' schedulers in the minutes from+1 .. to.
CronFirings(from, to) ==
    {f \in UNION {[app : {a}, id : {j.id : j \in apps[a].jobs},
                   at : (from + 1) .. to, via : {"cron"}] : a \in DOMAIN apps} :
        /\ apps[f.app].scheduler_running
        /\ \E j \in apps[f.app].jobs : j.id = f.id /\ CronMatches(j, f.at)}

\* A run of the job's function that has just started.
Started == [pc |-> "select", victims |-> {}]

\* ------------------------------------------------------------ history

NoObs ==
    [op |-> "init", cred |-> NoCred, resp |-> None, check |-> None,
     queries |-> 0, removed |-> {}, fired |-> {}]

Obs(op) == [NoObs EXCEPT !.op = op]

NoReq == [pc |-> "idle"]

\* ------------------------------------------------------------ actions

\* create_app(db_url) is called under the environment env.
CreateApp(db_url, env) ==
    /\ Len(apps) < MaxApps
    /\ apps' = Append(apps, create_app(db_url, env))
    /\ obs' = Obs("create_app")
    /\ UNCHANGED <<blocklist, tokens, now, req, sweeps, revoked>>

\* A login at instance a: an access token for identity, with the claims of the
\* additional_claims_loader and the configured lifetime.
IssueToken(a, identity) ==
    /\ Cardinality(tokens) < MaxTokens
    /\ LET r == Invoke(apps[a], "additional_claims_loader", identity, blocklist)
           t == [jti |-> Cardinality(tokens) + 1, sub |-> identity, claims |-> r.ret,
                 exp |-> now + apps[a].config.JWT_ACCESS_TOKEN_EXPIRES]
       IN  /\ tokens' = tokens \cup {t}
           /\ blocklist' = r.db
           /\ obs' = [Obs("add_claims_to_jwt") EXCEPT !.queries = r.queries]
    /\ UNCHANGED <<apps, now, req, sweeps, revoked>>

\* A logout with token t, which the gate accepts: its row is inserted.
Revoke(t) ==
    /\ t.exp > now
    /\ filter_by(blocklist, t.jti) = {}
    /\ blocklist' = blocklist \cup {Row(t)}
    /\ revoked' = revoked \cup {t.jti}
    /\ obs' = Obs("revoke")
    /\ UNCHANGED <<apps, tokens, now, req, sweeps>>

\* A request with credential cred reaches instance a: it is rejected at once,
\* or waits for its blocklist check.
ReqBegin(a, cred) ==
    /\ req = NoReq
    /\ LET r == DecodeRequest(apps[a], cred, now, blocklist)
       IN  /\ blocklist' = r.db
           /\ req' = IF r.ret = None
                     THEN [pc |-> "check", app |-> a, cred |-> cred,
                           revoked_before |-> cred.jti \in revoked]
                     ELSE NoReq
           /\ obs' = [Obs("decode") EXCEPT !.cred = cred, !.resp = r.ret,
                                           !.queries = r.queries]
    /\ UNCHANGED <<apps, tokens, now, sweeps, revoked>>

\* The blocklist check of the waiting request, and its response.
ReqCheck ==
    /\ req # NoReq
    /\ LET r == CheckBlocklist(apps[req.app], req.cred, blocklist)
       IN  /\ blocklist' = r.db
           /\ obs' = [Obs("check") EXCEPT
                        !.cred = req.cred, !.resp = r.ret, !.queries = r.queries,
                        !.check = [jti |-> req.cred.jti,
                                   result |-> r.hit,
                                   revoked_before |-> req.revoked_before]]
    /\ req' = NoReq
    /\ UNCHANGED <<apps, tokens, now, sweeps, revoked>>

\* An hour passes, up to the minute limit; the schedulers fire the jobs that
\* came due in it, and each firing starts a run of the clean-up.
Advance(limit) ==
    /\ now + 60 <= limit
    /\ now' = now + 60
    /\ LET fired == CronFirings(now, now + 60)
       IN  /\ obs' = [Obs("advance") EXCEPT !.fired = fired]
           /\ sweeps' = IF fired = {} THEN sweeps ELSE sweeps \cup {Started}
    /\ UNCHANGED <<apps, blocklist, tokens, req, revoked>>

\* POST /scheduler/jobs/<id>/run at instance a.
ApiRunJob(a, id) ==
    /\ apps[a].config.SCHEDULER_API_ENABLED
    /\ \E j \in apps[a].jobs : j.id = id
    /\ sweeps' = sweeps \cup {Started}
    /\ obs' = [Obs("api_run") EXCEPT
                 !.fired = {[app |-> a, id |-> id, at |-> now, via |-> "api"]}]
    /\ UNCHANGED <<apps, blocklist, tokens, now, req, revoked>>

\* DELETE /scheduler/jobs/<id> at instance a.
ApiDeleteJob(a, id) ==
    /\ apps[a].config.SCHEDULER_API_ENABLED
    /\ \E j \in apps[a].jobs : j.id = id
    /\ apps' = [apps EXCEPT ![a].jobs = {j \in @ : j.id # id}]
    /\ obs' = Obs("api_delete")
    /\ UNCHANGED <<blocklist, tokens, now, req, sweeps, revoked>>

\* A run of the clean-up selects the rows it will delete.
CleanupSelect(s) ==
    /\ s.pc = "select"
    /\ sweeps' = (sweeps \ {s}) \cup
                    {[pc |-> "delete", victims |-> cleanup_select(blocklist, now)]}
    /\ obs' = Obs("cleanup_select")
    /\ UNCHANGED <<apps, blocklist, tokens, now, req, revoked>>

\* A run of the clean-up deletes the rows it selected, and ends.
CleanupDelete(s) ==
    /\ s.pc = "delete"
    /\ blocklist' = cleanup_delete(blocklist, s.victims)
    /\ sweeps' = sweeps \ {s}
    /\ obs' = [Obs("cleanup_delete") EXCEPT !.removed = blocklist \ blocklist']
    /\ UNCHANGED <<apps, tokens, now, req, revoked>>

\* ----------------------------------------------------- specifications

\* One instance serving requests, the store and the clean-up.
Init ==
    /\ apps \in {<<create_app(u, e)>> : u \in DbUrls, e \in {EnvFull}}
    /\ blocklist = {}
    /\ tokens = {}
    /\ now = 0
    /\ req = NoReq
    /\ sweeps = {}
    /\ revoked = {}
    /\ obs = NoObs

Next ==
    \/ \E a \in DOMAIN apps, identity \in Identities : IssueToken(a, identity)
    \/ \E t \in tokens : Revoke(t)
    \/ \E a \in DOMAIN apps, cred \in Creds : ReqBegin(a, cred)
    \/ ReqCheck
    \/ Advance(MaxHours * 60)
    \/ \E a \in DOMAIN apps : ApiRunJob(a, "cleanup_revoked_tokens")
    \/ \E s \in sweeps : CleanupSelect(s)
    \/ \E s \in sweeps : CleanupDelete(s)

Spec == Init /\ [][Next]_vars

\* The calls of create_app and the schedulers of the instances they return.
InitAssembly ==
    /\ apps = <<>>
    /\ blocklist = {}
    /\ tokens = {}
    /\ now = 0
    /\ req = NoReq
    /\ sweeps = {}
    /\ revoked = {}
    /\ obs = NoObs

NextAssembly ==
    \/ \E u \in DbUrls, e \in Envs : CreateApp(u, e)
    \/ Advance(MaxDays * 1440)
    \/ \E a \in DOMAIN apps : ApiRunJob(a, "cleanup_revoked_tokens")
    \/ \E a \in DOMAIN apps : ApiDeleteJob(a, "cleanup_revoked_tokens")
    \/ \E s \in sweeps : CleanupSelect(s)
    \/ \E s \in sweeps : CleanupDelete(s)

SpecAssembly == InitAssembly /\ [][NextAssembly]_vars

\* ------------------------------------------------------------ properties

\* A request has just been answered.
Answered == obs.op \in {"decode", "check"} /\ obs.resp # None

InStore(jti) == \E row \in blocklist : row.jti = jti

\* C1: the revocation check returns true for a jti that is in the store when it
\* is called, and false for one that is not.
C1_CheckMatchesStore ==
    obs.op = "check" => (obs.check.result <=> InStore(obs.check.jti))

C1_Witness == obs.op = "check" /\ obs.check.result /\ InStore(obs.check.jti)

\* C2: no credential is answered 401 authorization_required, a broken signature
\* 401 invalid_token, an expired token 401 token_expired, and an unexpired token
\* that is in the blocklist 401 token_revoked.
C2_FailureCodes ==
    Answered =>
        /\ obs.cred.kind = "none" =>
              obs.resp.status = 401 /\ obs.resp.body.error = "authorization_required"
        /\ obs.cred.kind = "jwt" /\ ~obs.cred.sig_ok =>
              obs.resp.status = 401 /\ obs.resp.body.error = "invalid_token"
        /\ obs.cred.kind = "jwt" /\ obs.cred.sig_ok /\ obs.cred.exp <= now
              /\ obs.op = "decode" =>
              obs.resp.status = 401 /\ obs.resp.body.error = "token_expired"
        /\ obs.cred.kind = "jwt" /\ obs.cred.sig_ok /\ obs.cred.exp > now
              /\ InStore(obs.cred.jti) =>
              obs.resp.status = 401 /\ obs.resp.body.error = "token_revoked"

C2_Witness ==
    /\ Answered /\ obs.cred.kind = "jwt" /\ obs.cred.sig_ok /\ obs.cred.exp > now
    /\ InStore(obs.cred.jti) /\ obs.resp.body.error = "token_revoked"

\* C3, as claimed: a request whose token's jti is in the store is never accepted
\* and is answered as a revoked token, whatever its signature and expiry.
C3_AlwaysRevoked ==
    Answered /\ obs.cred.kind = "jwt" /\ InStore(obs.cred.jti) =>
        obs.resp.status = 401 /\ obs.resp.body.error = "token_revoked"

\* C3, amended: a request whose token's jti is in the store is never accepted; it
\* is answered invalid_token when the signature is broken, token_expired when the
\* token has expired, and token_revoked otherwise.
C3_NeverAccepted ==
    Answered /\ obs.cred.kind = "jwt" /\ InStore(obs.cred.jti) =>
        /\ obs.resp.status = 401
        /\ obs.resp.body.error =
              IF ~obs.cred.sig_ok THEN "invalid_token"
              ELSE IF obs.op = "decode" THEN "token_expired"
              ELSE "token_revoked"

C3_Witness ==
    /\ Answered /\ obs.cred.kind = "jwt" /\ obs.cred.sig_ok
    /\ InStore(obs.cred.jti) /\ obs.resp.body.error = "token_expired"

\* C4: every failure response is a 401 whose body has exactly two keys, the text
\* under description or message and error, with one of the four codes.
C4_Envelope ==
    Answered /\ obs.resp # Accepted =>
        /\ obs.resp.status = 401
        /\ DOMAIN obs.resp.body \in {{"description", "error"}, {"message", "error"}}
        /\ obs.resp.body.error \in
              {"token_revoked", "token_expired", "invalid_token",
               "authorization_required"}

\* C5: the claims of a token are exactly is_admin, true for the identity "1" and
\* false for every other identity.
C5_IsAdmin ==
    \A t \in tokens : t.claims = [is_admin |-> PyEq(t.sub, PyStr("1"))]

C5_Witness == \E t \in tokens : t.sub = PyInt("1") /\ t.claims = [is_admin |-> FALSE]

\* C6: the clean-up deletes only rows whose token has expired, and a token that
\* was revoked and has not expired is in the store.
C6_CleanupKeepsUnexpired ==
    /\ \A row \in obs.removed : row.exp <= now
    /\ \A t \in tokens : t.jti \in revoked /\ t.exp > now => Row(t) \in blocklist

C6_Witness ==
    /\ obs.op = "cleanup_delete"
    /\ \E t \in tokens : t.jti \in revoked /\ t.exp > now /\ Row(t) \in blocklist

\* The instances that were made under the same environment register the same.
SameAssembly ==
    \A i, j \in DOMAIN apps :
        apps[i].config = apps[j].config =>
            /\ apps[i].blueprints = apps[j].blueprints
            /\ apps[i].jwt_callbacks = apps[j].jwt_callbacks

FiveBlueprints ==
    \A i \in DOMAIN apps :
        apps[i].blueprints =
            <<"ImageBlueprint", "LabelBlueprint", "ProjectBlueprint",
              "UserBlueprint", "GeminiBlueprint">>

\* C7, as claimed: two calls of create_app under the same environment register
\* the same five blueprints and the same five JWT callbacks.
C7_FiveCallbacks ==
    /\ SameAssembly
    /\ FiveBlueprints
    /\ \A i \in DOMAIN apps : Cardinality(DOMAIN apps[i].jwt_callbacks) = 5

\* C7, amended: two calls of create_app under the same environment register the
\* same five blueprints and the same six JWT callbacks.
C7_SixCallbacks ==
    /\ SameAssembly
    /\ FiveBlueprints
    /\ \A i \in DOMAIN apps :
          /\ Cardinality(DOMAIN apps[i].jwt_callbacks) = 6
          /\ Cardinality({apps[i].jwt_callbacks[l] : l \in DOMAIN apps[i].jwt_callbacks}) = 6

C7_Witness == Len(apps) = 2 /\ apps[1].config = apps[2].config

\* The job of an instance as the claim describes it.
IsCleanupAtThree(job) ==
    /\ job.id = "cleanup_revoked_tokens"
    /\ job.trigger = "cron" /\ job.hour = {3} /\ job.minute = {0}

====
